---- MODULE Spec2Model ----
(***************************************************************************)
(* Task lifecycle and event notification of the LocalStack sample          *)
(* application: TaskService (services/task-service.ts) and the task        *)
(* handlers of handlers/api.ts, run by concurrent Lambda invocations       *)
(* against one DynamoDB table and one SQS queue.                           *)
(*                                                                         *)
(* Every await of the source is one step of the invocation that runs it;   *)
(* the synchronous code between two awaits belongs to the step of the      *)
(* await it follows.  A collaborator call (DynamoDB, SQS) either takes     *)
(* effect or rejects; a rejection leaves the collaborator unchanged.       *)
(***************************************************************************)
EXTENDS Integers, Sequences, FiniteSets, Bags, TLC

\* ---------------------------------------------------------------- bounds
MaxTasks == 2          \* ids uuidv4 hands out before createTask is disabled
MaxClock == 2          \* last instant of the clock
MaxInvocations == 3    \* invocations started in one behaviour

Procs == {1, 2}        \* frames of the concurrently running Lambda invocations

\* ---------------------------------------------------------------- values
TaskIds == 1 .. MaxTasks
\* values a caller can put into a request; the foreign id and instant are
\* values that neither uuidv4 nor the clock produce
ForeignId == MaxTasks + 1
ForeignTime == MaxClock + 1
Titles == {"", "A"}
Descriptions == {"d"}

\* TaskStatus
TODO == "TODO"
IN_PROGRESS == "IN_PROGRESS"
DONE == "DONE"
TaskStatus == {TODO, IN_PROGRESS, DONE}

NoVal == << >>
None == [kind |-> "none", val |-> NoVal]
Null == [kind |-> "null", val |-> NoVal]
Thrown == [kind |-> "throw", val |-> NoVal]
True == [kind |-> "true", val |-> NoVal]
False == [kind |-> "false", val |-> NoVal]
Obj(item) == [kind |-> "object", val |-> item]
IsObj(r) == r.kind = "object"

Undefined == "undefined"

\* `!v` for a string or undefined v
Falsy(v) == v \in {Undefined, ""}

\* `v || d`
Or(v, d) == IF Falsy(v) THEN d ELSE v

\* a JSON object / DynamoDB item: a function from the attribute names it
\* carries to their values
Has(item, k) == k \in DOMAIN item
Without(item, keys) == [k \in DOMAIN item \ keys |-> item[k]]

\* ------------------------------------------------- utils/response.ts
\* the headers both helpers attach
Headers ==
  [ContentType |-> "application/json",
   AccessControlAllowOrigin |-> "*",
   AccessControlAllowCredentials |-> "true"]

\* successResponse(data, statusCode); body is the value JSON.stringify
\* renders, which for the data of this model (strings, numbers, records of
\* them, with no undefined property) determines the data and is determined
\* by it
successResponse(data, statusCode) ==
  [statusCode |-> statusCode, body |-> data, headers |-> Headers]

\* errorResponse(message, statusCode)
errorResponse(message, statusCode) ==
  [statusCode |-> statusCode, body |-> [message |-> message],
   headers |-> Headers]

\* no response: the invocation is running, or no handler was involved
NoResponse == [statusCode |-> 0, body |-> NoVal, headers |-> NoVal]

\* the event of a handler invocation: event.body and
\* event.pathParameters?.id
Event(body, id) == [body |-> body, id |-> id]
NoEvent == Event(None, None)

\* ---------------------------------------------------- utils/aws-clients.ts
\* A template literal is the sequence of its pieces.  e is process.env: a
\* record of the variables the code reads, Undefined for one that is not set.

\* (a resolver that asks NODE_ENV before STAGE)
getStageNodeEnvFirst(e) ==
  IF e.NODE_ENV \in {"local", "development"}
  THEN (IF e.NODE_ENV = "local" THEN "local" ELSE "dev")
  ELSE IF e.NODE_ENV = "staging" THEN "staging"
  ELSE IF e.NODE_ENV = "production" THEN "prod"
  ELSE Or(e.STAGE, "dev")

getStage(e) ==
  IF ~Falsy(e.STAGE) THEN e.STAGE
  ELSE IF ~Falsy(e.NODE_ENV) /\ e.NODE_ENV \in {"local", "development"}
  THEN (IF e.NODE_ENV = "local" THEN "local" ELSE "dev")
  ELSE IF ~Falsy(e.NODE_ENV) /\ e.NODE_ENV = "staging" THEN "staging"
  ELSE IF ~Falsy(e.NODE_ENV) /\ e.NODE_ENV = "production" THEN "prod"
  ELSE "dev"

isLambda(e) == ~Falsy(e.AWS_LAMBDA_FUNCTION_NAME)
isLocalStack(e) == ~Falsy(e.LOCALSTACK_HOSTNAME)
isLocalEnv(e) == getStage(e) \in {"local", "dev"}
region(e) == Or(e.AWS_REGION, "ap-northeast-1")
accountId(e) == Or(e.AWS_ACCOUNT_ID, "000000000000")

getAwsConfig(e, forceLocalStack, forceProduction) ==
  IF forceProduction \/ e.IS_PRODUCTION = "true"
  THEN [region |-> region(e)]
  ELSE IF ~isLocalStack(e) /\ ~isLocalEnv(e) /\ ~forceLocalStack
  THEN [region |-> region(e)]
  ELSE [region |-> region(e),
        endpoint |-> IF ~Falsy(e.LOCALSTACK_HOSTNAME)
                     THEN <<"http://", e.LOCALSTACK_HOSTNAME, ":4566">>
                     ELSE <<"http://localhost:4566">>,
        credentials |-> [accessKeyId |-> "test", secretAccessKey |-> "test"]]

TASKS_TABLE(e) == Or(e.TASKS_TABLE, <<"tasks-table-", getStage(e)>>)

FILES_BUCKET(e) ==
  Or(e.FILES_BUCKET,
     <<"files-bucket-", getStage(e), "-", Or(e.UNIQUE_SUFFIX, "xyz123")>>)

TASKS_QUEUE(e) ==
  LET queueName == Or(e.TASKS_QUEUE, <<"tasks-queue-", getStage(e)>>)
  IN  IF ~Falsy(e.TASKS_QUEUE_URL) THEN e.TASKS_QUEUE_URL
      ELSE IF e.IS_PRODUCTION = "true" \/ ~Falsy(e.MY_AWS_ACCOUNT_ID)
      THEN <<"https://sqs.", Or(e.MY_AWS_REGION, region(e)), ".amazonaws.com/",
             Or(e.MY_AWS_ACCOUNT_ID, accountId(e)), "/", queueName>>
      ELSE IF isLambda(e) /\ ~isLocalStack(e)
      THEN <<"https://sqs.", region(e), ".amazonaws.com/", accountId(e), "/",
             queueName>>
      ELSE <<"http://",
             IF isLocalStack(e) /\ ~Falsy(e.LOCALSTACK_HOSTNAME)
             THEN e.LOCALSTACK_HOSTNAME ELSE "localhost",
             ":4566/000000000000/", queueName>>

\* what the module exports once its top-level code has run
AwsClients(e) ==
  [stage |-> getStage(e),
   dynamoDb |-> getAwsConfig(e, FALSE, FALSE),
   s3 |-> getAwsConfig(e, FALSE, FALSE),
   sqs |-> getAwsConfig(e, FALSE, TRUE),
   TASKS_TABLE |-> TASKS_TABLE(e),
   FILES_BUCKET |-> FILES_BUCKET(e),
   TASKS_QUEUE |-> TASKS_QUEUE(e)]

\* saveFileMetadata: the url of the metadata record
FileUrl(e, fileId, filename) ==
  IF e.STAGE = "local"
  THEN <<"http://localhost:4566/", FILES_BUCKET(e), "/", fileId, "/", filename>>
  ELSE <<"https://", FILES_BUCKET(e), ".s3.amazonaws.com/", fileId, "/",
         filename>>

\* process.env with no variable set
NoEnv ==
  [STAGE |-> Undefined, NODE_ENV |-> Undefined, IS_PRODUCTION |-> Undefined,
   LOCALSTACK_HOSTNAME |-> Undefined, AWS_LAMBDA_FUNCTION_NAME |-> Undefined,
   TASKS_QUEUE_URL |-> Undefined, MY_AWS_ACCOUNT_ID |-> Undefined,
   MY_AWS_REGION |-> Undefined, AWS_REGION |-> Undefined,
   AWS_ACCOUNT_ID |-> Undefined, TASKS_TABLE |-> Undefined,
   FILES_BUCKET |-> Undefined, TASKS_QUEUE |-> Undefined,
   UNIQUE_SUFFIX |-> Undefined]

\* the .env of the local development set-up
DotEnv ==
  [NoEnv EXCEPT !.LOCALSTACK_HOSTNAME = "localhost",
                !.AWS_REGION = "ap-northeast-1",
                !.NODE_ENV = "development", !.STAGE = "dev"]

\* the settings explored: each selector unset, empty, at each value the code
\* tests for, and at one it does not test for
Envs ==
  { [NoEnv EXCEPT !.STAGE = st, !.NODE_ENV = ne, !.IS_PRODUCTION = ip,
                  !.LOCALSTACK_HOSTNAME = lh,
                  !.AWS_LAMBDA_FUNCTION_NAME = fn, !.TASKS_QUEUE_URL = qu,
                  !.MY_AWS_ACCOUNT_ID = ac] :
      st \in {Undefined, "", "local", "dev", "staging", "prod", "qa"},
      ne \in {Undefined, "", "local", "development", "staging", "production",
              "test"},
      ip \in {Undefined, "true", "false"},
      lh \in {Undefined, "", "localstack"},
      fn \in {Undefined, "fn"},
      qu \in {Undefined, "https://queue"},
      ac \in {Undefined, "123456789012"} }

\* ----------------------------------------------------------------- state
VARIABLES
  table,      \* DynamoDB table TASKS_TABLE: id -> item, for the ids that have one
  queue,      \* bag of the messages SQS accepted on TASKS_QUEUE (a standard queue)
  now,        \* the clock new Date() reads
  uuids,      \* number of ids uuidv4 has generated
  created,    \* history: the Task objects createTask has built, in order
  deleted,    \* history: the ids a delete removed a record of
  started,    \* history: number of invocations started
  pc,         \* per invocation: the await it is suspended at
  op,         \* per invocation: the TaskService method it runs
  via,        \* per invocation: "handler" (through handlers/api.ts) or "service"
  taskId,     \* per invocation: the id argument (createTask: the id of its task)
  request,    \* per invocation: the event its handler was invoked with
  payload,    \* per invocation: updateTask's updates as the caller sent them
  local,      \* per invocation: task / currentTask
  timestamp,  \* per invocation: its latest reading of the clock
  ret,        \* per invocation: what the TaskService method returned or threw
  resp,       \* per invocation: the response its handler returned
  writes,     \* history, per invocation: store writes that took effect
  sends,      \* history, per invocation: sendMessage calls it made
  written,    \* history, per invocation: the item its store write left in the table
  bucket,     \* S3 bucket FILES_BUCKET: the keys that have an object
  env,        \* process.env
  module,     \* what utils/aws-clients exports, None before it is loaded
  url,        \* the url saveFileMetadata last built, None before
  records,    \* queue consumer: event.Records of its invocation, the bodies
  cursor,     \* queue consumer: index of the record processRecord is at
  awaiting,   \* queue consumer: the await it is suspended at, or how it ended
  handled,    \* history, queue consumer: the records handled, with the branch
  reads       \* history, queue consumer: getTaskById calls it made

shared == <<table, queue, now, uuids, created, deleted, started>>
inv == <<pc, op, via, taskId, request, payload, local, timestamp, ret, resp>>
hist == <<writes, sends, written>>
process == <<env, module, url>>
consumer == <<records, cursor, awaiting, handled, reads>>
outside == <<bucket, process, consumer>>
vars == <<shared, inv, hist, outside>>

\* ------------------------------------------------- collaborators: DynamoDB
\* DocumentClient.put: the item replaces whatever is stored under its key
PutItem(t, item) ==
  [k \in DOMAIN t \cup {item.id} |-> IF k = item.id THEN item ELSE t[k]]

\* DocumentClient.get followed by `(result.Item as Task) || null`
GetItem(t, id) == IF id \in DOMAIN t THEN Obj(t[id]) ELSE Null

\* (a delete that removes nothing)
DeleteItemNoop(t, id) == t

\* DocumentClient.delete
DeleteItem(t, id) == [k \in DOMAIN t \ {id} |-> t[k]]

\* An UpdateExpression "SET #a = :a, #b = :b, ..." is the sequence of the
\* attribute names it assigns.  DynamoDB rejects an expression that assigns
\* one path twice (ValidationException: two document paths overlap).
\* and one that assigns the key attribute.
ExpressionValid(names) ==
  /\ \A i, j \in 1 .. Len(names) : i # j => names[i] # names[j]
  /\ \A i \in 1 .. Len(names) : names[i] # "id"

\* (an update that replaces the item by the key and the assigned attributes)
UpdateItemReplaces(t, id, values) ==
  LET item == [k \in {"id"} \cup DOMAIN values |->
                 IF k \in DOMAIN values THEN values[k] ELSE id]
  IN  [k \in DOMAIN t \cup {id} |-> IF k = id THEN item ELSE t[k]]

\* DocumentClient.update with a SET expression: edits the item under the key,
\* or adds a new item holding the key and the assigned attributes when the
\* table has no item under the key.
UpdateItem(t, id, values) ==
  LET base == IF id \in DOMAIN t THEN t[id] ELSE [k \in {"id"} |-> id]
      item == [k \in DOMAIN base \cup DOMAIN values |->
                 IF k \in DOMAIN values THEN values[k] ELSE base[k]]
  IN  [k \in DOMAIN t \cup {id} |-> IF k = id THEN item ELSE t[k]]

\* ------------------------------------------------------------ TaskService
\* (a generator that hands out its previous id again)
uuidv4Repeats == IF uuids = 0 THEN 1 ELSE uuids

\* uuidv4(): an id no earlier call returned
uuidv4 == uuids + 1

\* createTask's task object; JSON and the DocumentClient both drop a
\* property whose value is undefined
NewTask(id, title, description, ts) ==
  LET req == [id |-> id, title |-> title, status |-> TODO, createdAt |-> ts]
  IN  IF description = Undefined THEN req
      ELSE [k \in DOMAIN req \cup {"description"} |->
              IF k = "description" THEN description ELSE req[k]]

\* (createdAt left assignable)
ProtectedKeysIdOnly == {"id"}

\* the keys updateTask never assigns
ProtectedKeys == {"id", "createdAt"}

\* Object.entries(updates), in the order the caller's object lists its keys
KeyOrder == <<"id", "title", "status", "createdAt", "updatedAt">>
Entries(updates) == SelectSeq(KeyOrder, LAMBDA k : k \in DOMAIN updates)

\* updateExpressions: one SET clause per entry that is not protected, then
\* the clause for updatedAt
UpdateNames(updates) ==
  SelectSeq(Entries(updates), LAMBDA k : k \notin ProtectedKeys)
    \o <<"updatedAt">>

\* (updatedAt not refreshed)
UpdateValuesNoTimestamp(updates, ts) ==
  [k \in DOMAIN updates \ ProtectedKeys |-> updates[k]]

\* attributeValues: the entries' values, then :updatedAt set to timestamp
UpdateValues(updates, ts) ==
  [k \in (DOMAIN updates \ ProtectedKeys) \cup {"updatedAt"} |->
     IF k = "updatedAt" THEN ts ELSE updates[k]]

\* sendTaskMessage's message object
TaskMessage(id, action, ts) ==
  [taskId |-> id, action |-> action, timestamp |-> ts]

\* --------------------------------------------------------------- handlers
\* update: `delete updates.id; delete updates.createdAt`
StripUpdates(body) == Without(body, {"id", "createdAt"})

\* the message literals of handlers/api.ts, in English
NoBody == "request body missing"
TitleRequired == "title is required"
TaskIdMissing == "task id not specified"
TaskNotFound == "task not found"
TaskDeleted == "task deleted"

\* the message of the catch block of the handler that calls method o
Caught(o) ==
  CASE o = "createTask" -> "error while creating the task"
    [] o = "getTaskById" -> "error while getting the task"
    [] o = "updateTask" -> "error while updating the task"
    [] o = "deleteTask" -> "error while deleting the task"
    [] o = "listTasks" -> "error while listing the tasks"
    [] o = "saveFileMetadata" -> "error while generating the signed url"
    [] o = "getFileMetadata" -> "error while getting the file metadata"
    [] o = "deleteFile" -> "error while deleting the file"
    [] o = "checkServices" -> "error while handling the request"

\* (a handler without the `if (!task)` test)
TaskResponseOk(r) == successResponse(r.val, 200)

\* get, update: `if (!task) return errorResponse(..., 404)`, else
\* `return successResponse(task)`
TaskResponse(r) ==
  IF r = Null THEN errorResponse(TaskNotFound, 404)
  ELSE successResponse(r.val, 200)

\* ----------------------------------------------------------------- inputs
Opt(k, vals) == {NoVal} \cup {k :> v : v \in vals}
\* update payloads: the empty one, one field, a field with the protected
\* keys, a status outside TaskStatus, and one that names updatedAt
Payloads ==
  { NoVal,
    [status |-> IN_PROGRESS],
    [title |-> "B"],
    [id |-> ForeignId, createdAt |-> ForeignTime, status |-> DONE],
    [status |-> "BOGUS"],
    [updatedAt |-> ForeignTime] }
\* create bodies: title and description each present or not
CreateBodies ==
  {a @@ b : a \in Opt("title", Titles), b \in Opt("description", Descriptions)}
\* event.body: absent, not JSON, the JSON text null, or a JSON object (any
\* other JSON value has none of the properties the handlers read, as the
\* object {} has)
Invalid == [kind |-> "invalid", val |-> NoVal]
Bodies(objects) == {None, Invalid, Null} \cup {Obj(o) : o \in objects}
\* event.pathParameters?.id: absent or an id
PathIds == {None} \cup {Obj(i) : i \in TaskIds}

\* ------------------------------------------------------------------- Init
\* no invocation has started
NoInvocation ==
  /\ table = << >>
  /\ queue = EmptyBag
  /\ now = 1
  /\ uuids = 0
  /\ created = << >>
  /\ deleted = {}
  /\ started = 0
  /\ pc = [p \in Procs |-> "idle"]
  /\ op = [p \in Procs |-> "none"]
  /\ via = [p \in Procs |-> "none"]
  /\ taskId = [p \in Procs |-> ForeignId]
  /\ request = [p \in Procs |-> NoEvent]
  /\ payload = [p \in Procs |-> NoVal]
  /\ local = [p \in Procs |-> None]
  /\ timestamp = [p \in Procs |-> 0]
  /\ ret = [p \in Procs |-> None]
  /\ resp = [p \in Procs |-> NoResponse]
  /\ writes = [p \in Procs |-> 0]
  /\ sends = [p \in Procs |-> 0]
  /\ written = [p \in Procs |-> NoVal]
  /\ bucket = {}
  /\ records = << >>
  /\ cursor = 0
  /\ awaiting = "idle"
  /\ handled = << >>
  /\ reads = 0

\* the process runs with the local development settings and has loaded
\* utils/aws-clients
Init ==
  /\ NoInvocation
  /\ env = DotEnv
  /\ module = Obj(AwsClients(env))
  /\ url = None

\* ------------------------------------------------------ invocation frames
\* a new invocation takes the first frame that runs none
Idle(p) == pc[p] \in {"idle", "done"}
Free(p) ==
  /\ Idle(p)
  /\ \A q \in Procs : q < p => ~Idle(q)
  /\ started < MaxInvocations

\* a new invocation on p: its frame is fresh
Begin(p, o, v, ev, id, upd, loc, ts, at, answer) ==
  /\ started' = started + 1
  /\ request' = [request EXCEPT ![p] = ev]
  /\ pc' = [pc EXCEPT ![p] = at]
  /\ op' = [op EXCEPT ![p] = o]
  /\ via' = [via EXCEPT ![p] = v]
  /\ taskId' = [taskId EXCEPT ![p] = id]
  /\ payload' = [payload EXCEPT ![p] = upd]
  /\ local' = [local EXCEPT ![p] = loc]
  /\ timestamp' = [timestamp EXCEPT ![p] = ts]
  /\ ret' = [ret EXCEPT ![p] = None]
  /\ resp' = [resp EXCEPT ![p] = answer]
  /\ writes' = [writes EXCEPT ![p] = 0]
  /\ sends' = [sends EXCEPT ![p] = 0]
  /\ written' = [written EXCEPT ![p] = NoVal]

\* the handler answers without calling the service
Answer(p, o, ev, answer) ==
  /\ Begin(p, o, "handler", ev, ForeignId, NoVal, None, 0, "done", answer)
  /\ UNCHANGED <<table, queue, now, uuids, created, deleted>>

\* the service method returns r (or throws, r = Thrown); a handler returns
\* the response `answer` for what the method returned, and the response of
\* its catch block for what the method threw
Return(p, r, answer) ==
  /\ pc' = [pc EXCEPT ![p] = "done"]
  /\ ret' = [ret EXCEPT ![p] = r]
  /\ resp' = [resp EXCEPT ![p] =
                IF via[p] # "handler" THEN NoResponse
                ELSE IF r = Thrown THEN errorResponse(Caught(op[p]), 500)
                ELSE answer]

\* ... and its locals go out of scope
Returns(p, r, answer) ==
  /\ Return(p, r, answer)
  /\ request' = [request EXCEPT ![p] = NoEvent]
  /\ payload' = [payload EXCEPT ![p] = NoVal]
  /\ local' = [local EXCEPT ![p] = None]
  /\ timestamp' = [timestamp EXCEPT ![p] = 0]
  /\ UNCHANGED <<op, via, taskId>>

\* the collaborator call p is suspended at rejects: the rejection propagates
\* out of the service method
Rejects(p) ==
  /\ Returns(p, Thrown, NoResponse)
  /\ UNCHANGED <<shared, hist>>

\* after its store write took effect, p calls sendTaskMessage: the message
\* is built from a fresh reading of the clock and sendMessage is called
Wrote(p, item, at) ==
  /\ writes' = [writes EXCEPT ![p] = @ + 1]
  /\ written' = [written EXCEPT ![p] = item]
  /\ sends' = [sends EXCEPT ![p] = @ + 1]
  /\ timestamp' = [timestamp EXCEPT ![p] = now]
  /\ pc' = [pc EXCEPT ![p] = at]
  /\ UNCHANGED <<op, via, taskId, request, payload, local, ret, resp>>

\* SQS accepts the message p sends
Accepted(p, action) ==
  queue' = queue (+) SetToBag({TaskMessage(taskId[p], action, timestamp[p])})

\* ------------------------------------------------------------- createTask
\* createTask up to its first await: reads the clock, builds the task and
\* calls put
CallCreateTask(p, v, ev, title, description) ==
  /\ uuids < MaxTasks
  /\ LET task == NewTask(uuidv4, title, description, now)
     IN  /\ Begin(p, "createTask", v, ev, task.id, NoVal, Obj(task), now,
                  "create_put", NoResponse)
         /\ created' = Append(created, task)
  /\ uuids' = uuids + 1
  /\ UNCHANGED <<table, queue, now, deleted>>

Field(o, k) == IF Has(o, k) THEN o[k] ELSE Undefined

\* JSON.parse(event.body) throws on text that is not JSON; destructuring
\* the value, or deleting a property of it, throws on null
ParseThrows(body) == body \in {Invalid, Null}

\* handler create: POST /tasks
Create(p) ==
  /\ UNCHANGED outside
  /\ Free(p)
  /\ \E body \in Bodies(CreateBodies) :
       LET ev == Event(body, None)
       IN  IF body = None
           THEN Answer(p, "createTask", ev, errorResponse(NoBody, 400))
           ELSE IF ParseThrows(body)
           THEN Answer(p, "createTask", ev,
                       errorResponse(Caught("createTask"), 500))
           ELSE IF Falsy(Field(body.val, "title"))
           THEN Answer(p, "createTask", ev, errorResponse(TitleRequired, 400))
           ELSE CallCreateTask(p, "handler", ev, Field(body.val, "title"),
                               Field(body.val, "description"))

\* (a put whose rejection is caught and ignored)
CreatePutSwallows(p) ==
  /\ UNCHANGED outside
  /\ pc[p] = "create_put"
  /\ \/ /\ table' = PutItem(table, local[p].val)
        /\ Wrote(p, table'[taskId[p]], "create_send")
        /\ UNCHANGED <<queue, now, uuids, created, deleted, started>>
     \/ /\ sends' = [sends EXCEPT ![p] = @ + 1]
        /\ timestamp' = [timestamp EXCEPT ![p] = now]
        /\ pc' = [pc EXCEPT ![p] = "create_send"]
        /\ UNCHANGED <<op, via, taskId, request, payload, local, ret, resp>>
        /\ UNCHANGED <<shared, writes, written>>

\* await dynamoDb.put(...)
CreatePut(p) ==
  /\ UNCHANGED outside
  /\ pc[p] = "create_put"
  /\ \/ /\ table' = PutItem(table, local[p].val)
        /\ Wrote(p, table'[taskId[p]], "create_send")
        /\ UNCHANGED <<queue, now, uuids, created, deleted, started>>
     \/ Rejects(p)

\* await this.sendTaskMessage(task.id, 'CREATE'); return task
CreateSend(p) ==
  /\ UNCHANGED outside
  /\ pc[p] = "create_send"
  /\ \/ /\ Accepted(p, "CREATE")
        /\ Returns(p, local[p], successResponse(local[p].val, 201))
        /\ UNCHANGED <<table, now, uuids, created, deleted, started, hist>>
     \/ Rejects(p)

\* ------------------------------------------------------------ getTaskById
\* handler get: GET /tasks/{id}
Get(p) ==
  /\ UNCHANGED outside
  /\ Free(p)
  /\ \E id \in PathIds :
       IF id = None
       THEN Answer(p, "getTaskById", Event(None, id),
                   errorResponse(TaskIdMissing, 400))
       ELSE /\ Begin(p, "getTaskById", "handler", Event(None, id), id.val,
                     NoVal, None, 0, "get_read", NoResponse)
            /\ UNCHANGED <<table, queue, now, uuids, created, deleted>>

\* await dynamoDb.get(...); return (result.Item as Task) || null
GetRead(p) ==
  /\ UNCHANGED outside
  /\ pc[p] = "get_read"
  /\ \/ /\ Returns(p, GetItem(table, taskId[p]),
                   TaskResponse(GetItem(table, taskId[p])))
        /\ UNCHANGED <<shared, hist>>
     \/ Rejects(p)

\* ------------------------------------------------------------- updateTask
\* (no existence check)
NotFoundIgnored(r) == FALSE

\* `if (!currentTask)`, `if (!task)`
NotFound(r) == r = Null

\* the updates updateTask receives
Updates(p) ==
  IF via[p] = "handler" THEN StripUpdates(payload[p]) ELSE payload[p]

\* updateTask up to its first await: calls getTaskById
CallUpdateTask(p, v, ev, id, body) ==
  /\ Begin(p, "updateTask", v, ev, id, body, None, 0, "update_get",
           NoResponse)
  /\ UNCHANGED <<table, queue, now, uuids, created, deleted>>

\* handler update: PUT /tasks/{id}
Update(p) ==
  /\ UNCHANGED outside
  /\ Free(p)
  /\ \E id \in PathIds, body \in Bodies(Payloads) :
       LET ev == Event(body, id)
       IN  IF id = None
           THEN Answer(p, "updateTask", ev, errorResponse(TaskIdMissing, 400))
           ELSE IF body = None
           THEN Answer(p, "updateTask", ev, errorResponse(NoBody, 400))
           ELSE IF ParseThrows(body)
           THEN Answer(p, "updateTask", ev,
                       errorResponse(Caught("updateTask"), 500))
           ELSE CallUpdateTask(p, "handler", ev, id.val, body.val)

\* updateTask called by another caller than the handler
UpdateTask(p) ==
  /\ UNCHANGED outside
  /\ Free(p)
  /\ \E id \in TaskIds, updates \in Payloads :
       CallUpdateTask(p, "service", NoEvent, id, updates)

\* const currentTask = await this.getTaskById(id); on a task: reads the
\* clock, builds the update expression and calls update
UpdateGet(p) ==
  /\ UNCHANGED outside
  /\ pc[p] = "update_get"
  /\ \/ /\ NotFound(GetItem(table, taskId[p]))
        /\ Returns(p, Null, TaskResponse(Null))
        /\ UNCHANGED <<shared, hist>>
     \/ /\ ~NotFound(GetItem(table, taskId[p]))
        /\ local' = [local EXCEPT ![p] = GetItem(table, taskId[p])]
        /\ timestamp' = [timestamp EXCEPT ![p] = now]
        /\ pc' = [pc EXCEPT ![p] = "update_write"]
        /\ UNCHANGED <<op, via, taskId, request, payload, ret, resp, shared, hist>>
     \/ Rejects(p)

\* await dynamoDb.update(...)
UpdateWrite(p) ==
  /\ UNCHANGED outside
  /\ pc[p] = "update_write"
  /\ \/ /\ ExpressionValid(UpdateNames(Updates(p)))
        /\ table' = UpdateItem(table, taskId[p],
                               UpdateValues(Updates(p), timestamp[p]))
        /\ Wrote(p, table'[taskId[p]], "update_send")
        /\ UNCHANGED <<queue, now, uuids, created, deleted, started>>
     \/ Rejects(p)

\* (a send whose rejection is caught and ignored)
UpdateSendSwallows(p) ==
  /\ UNCHANGED outside
  /\ pc[p] = "update_send"
  /\ \/ Accepted(p, "UPDATE")
     \/ queue' = queue
  /\ pc' = [pc EXCEPT ![p] = "update_reread"]
  /\ UNCHANGED <<table, now, uuids, created, deleted, started, hist>>
  /\ UNCHANGED <<op, via, taskId, request, payload, local, timestamp, ret, resp>>

\* await this.sendTaskMessage(id, 'UPDATE'), then calls getTaskById
UpdateSend(p) ==
  /\ UNCHANGED outside
  /\ pc[p] = "update_send"
  /\ \/ /\ Accepted(p, "UPDATE")
        /\ pc' = [pc EXCEPT ![p] = "update_reread"]
        /\ UNCHANGED <<table, now, uuids, created, deleted, started, hist>>
        /\ UNCHANGED <<op, via, taskId, request, payload, local, timestamp, ret, resp>>
     \/ Rejects(p)

\* (returns the item the update call reported, ReturnValues ALL_NEW)
UpdateRereadLocal(p) ==
  /\ UNCHANGED outside
  /\ pc[p] = "update_reread"
  /\ Returns(p, Obj(written[p]), TaskResponse(Obj(written[p])))
  /\ UNCHANGED <<shared, hist>>

\* return await this.getTaskById(id)
UpdateReread(p) ==
  /\ UNCHANGED outside
  /\ pc[p] = "update_reread"
  /\ \/ /\ Returns(p, GetItem(table, taskId[p]),
                   TaskResponse(GetItem(table, taskId[p])))
        /\ UNCHANGED <<shared, hist>>
     \/ Rejects(p)

\* ------------------------------------------------------------- deleteTask
\* deleteTask up to its first await: calls getTaskById
CallDeleteTask(p, v, ev, id) ==
  /\ Begin(p, "deleteTask", v, ev, id, NoVal, None, 0, "delete_get",
           NoResponse)
  /\ UNCHANGED <<table, queue, now, uuids, created, deleted>>

\* handler remove: DELETE /tasks/{id}
Remove(p) ==
  /\ UNCHANGED outside
  /\ Free(p)
  /\ \E id \in PathIds :
       IF id = None
       THEN Answer(p, "deleteTask", Event(None, id),
                   errorResponse(TaskIdMissing, 400))
       ELSE CallDeleteTask(p, "handler", Event(None, id), id.val)

\* const task = await this.getTaskById(id); on a task: calls delete
DeleteGet(p) ==
  /\ UNCHANGED outside
  /\ pc[p] = "delete_get"
  /\ \/ /\ NotFound(GetItem(table, taskId[p]))
        /\ Returns(p, False, errorResponse(TaskNotFound, 404))
        /\ UNCHANGED <<shared, hist>>
     \/ /\ ~NotFound(GetItem(table, taskId[p]))
        /\ local' = [local EXCEPT ![p] = GetItem(table, taskId[p])]
        /\ pc' = [pc EXCEPT ![p] = "delete_write"]
        /\ UNCHANGED <<op, via, taskId, request, payload, timestamp, ret, resp>>
        /\ UNCHANGED <<shared, hist>>
     \/ Rejects(p)

\* await dynamoDb.delete(...)
DeleteWrite(p) ==
  /\ UNCHANGED outside
  /\ pc[p] = "delete_write"
  /\ \/ /\ table' = DeleteItem(table, taskId[p])
        /\ deleted' = deleted \cup (DOMAIN table \cap {taskId[p]})
        /\ Wrote(p, NoVal, "delete_send")
        /\ UNCHANGED <<queue, now, uuids, created, started>>
     \/ Rejects(p)

\* await this.sendTaskMessage(id, 'DELETE'); return true
DeleteSend(p) ==
  /\ UNCHANGED outside
  /\ pc[p] = "delete_send"
  /\ \/ /\ Accepted(p, "DELETE")
        /\ Returns(p, True, successResponse([message |-> TaskDeleted], 200))
        /\ UNCHANGED <<table, now, uuids, created, deleted, started, hist>>
     \/ Rejects(p)

\* ------------------------------------------------------------------ clock
Tick ==
  /\ UNCHANGED outside
  /\ now < MaxClock
  /\ now' = now + 1
  /\ UNCHANGED <<table, queue, uuids, created, deleted, started, inv, hist>>

Next ==
  \/ Tick
  \/ \E p \in Procs : Create(p)
  \/ \E p \in Procs : CreatePut(p)
  \/ \E p \in Procs : CreateSend(p)
  \/ \E p \in Procs : Get(p)
  \/ \E p \in Procs : GetRead(p)
  \/ \E p \in Procs : Update(p)
  \/ \E p \in Procs : UpdateTask(p)
  \/ \E p \in Procs : UpdateGet(p)
  \/ \E p \in Procs : UpdateWrite(p)
  \/ \E p \in Procs : UpdateSend(p)
  \/ \E p \in Procs : UpdateReread(p)
  \/ \E p \in Procs : Remove(p)
  \/ \E p \in Procs : DeleteGet(p)
  \/ \E p \in Procs : DeleteWrite(p)
  \/ \E p \in Procs : DeleteSend(p)

Spec == Init /\ [][Next]_vars

\* -------------------------------------------------------------- listTasks
\* handler list: GET /tasks
List(p) ==
  /\ UNCHANGED outside
  /\ Free(p)
  /\ Begin(p, "listTasks", "handler", NoEvent, ForeignId, NoVal, None, 0,
           "list_scan", NoResponse)
  /\ UNCHANGED <<table, queue, now, uuids, created, deleted>>

\* await dynamoDb.scan(...); return (result.Items as Task[]) || []: the
\* items of the table, here listed by their key
ListScan(p) ==
  /\ UNCHANGED outside
  /\ pc[p] = "list_scan"
  /\ \/ /\ Returns(p, Obj(table), successResponse(table, 200))
        /\ UNCHANGED <<shared, hist>>
     \/ Rejects(p)

\* ------------------------------------------------------------ FileService
Filenames == {"a.txt"}
ContentTypes == {"text/plain"}
Sizes == {0, 7}

\* `${fileId}/${filename}`
Key(fileId, filename) == <<fileId, "/", filename>>

\* getSignedUrl(operation, params): s3 computes the url from the operation
\* and the parameters, without a request
getSignedUrl(operation, params) ==
  [operation |-> operation, params |-> params]

\* generateUploadUrl, for the id uuidv4 returned
generateUploadUrl(fileId, filename, contentType) ==
  [url |-> getSignedUrl("putObject",
                        [Bucket |-> module.val.FILES_BUCKET,
                         Key |-> Key(fileId, filename), Expires |-> 300,
                         ContentType |-> contentType]),
   fileId |-> fileId]

\* getFileUrl
getFileUrl(fileId, filename) ==
  getSignedUrl("getObject",
               [Bucket |-> module.val.FILES_BUCKET,
                Key |-> Key(fileId, filename), Expires |-> 3600])

\* saveFileMetadata: fileMetadata
FileMetadata(fileId, filename, contentType, size, ts) ==
  [id |-> fileId, filename |-> filename, contentType |-> contentType,
   size |-> size, uploadedAt |-> ts, url |-> FileUrl(env, fileId, filename)]

\* saveFileMetadata: Item `{ id: fileId, type: 'FILE', ...fileMetadata }`
FileItem(fileMetadata) ==
  [k \in DOMAIN fileMetadata \cup {"type"} |->
     IF k \in DOMAIN fileMetadata THEN fileMetadata[k] ELSE "FILE"]

\* (a getFileMetadata that does not look at the type tag)
IsFileAny(item) == TRUE

\* `result.Item.type === 'FILE'`
IsFile(item) == Has(item, "type") /\ item.type = "FILE"

\* (a getFileMetadata that returns the item as stored)
getFileMetadataItem(t, fileId) ==
  IF fileId \in DOMAIN t /\ IsFile(t[fileId]) THEN Obj(t[fileId]) ELSE Null

\* getFileMetadata once the get has resolved: the six properties of an item
\* tagged FILE (a property the item lacks is undefined and left out), null
\* for any other item and for none
getFileMetadata(t, fileId) ==
  IF fileId \in DOMAIN t /\ IsFile(t[fileId])
  THEN Obj([k \in DOMAIN t[fileId] \cap {"id", "filename", "contentType",
                                          "size", "uploadedAt", "url"} |->
              t[fileId][k]])
  ELSE Null

\* the message literals of handlers/files.ts, in English
FileFieldsRequired == "filename and contentType are required"
FileIdMissing == "file id not specified"
FileNotFound == "file not found"
FileDeleteFailed == "could not delete the file"
FileDeleted == "file deleted"

\* upload bodies: without filename or contentType, with both, and with a
\* size of 0 and a positive one
UploadBodies ==
  { NoVal,
    [filename |-> "a.txt"],
    [contentType |-> "text/plain"],
    [filename |-> "a.txt", contentType |-> "text/plain"],
    [filename |-> "a.txt", contentType |-> "text/plain", size |-> 0],
    [filename |-> "a.txt", contentType |-> "text/plain", size |-> 7] }

\* saveFileMetadata up to its await: reads the clock, builds fileMetadata and
\* calls put
CallSaveFileMetadata(p, v, ev, fileId, filename, contentType, size) ==
  Begin(p, "saveFileMetadata", v, ev, fileId, NoVal,
        Obj(FileMetadata(fileId, filename, contentType, size, now)), now,
        "save_put", NoResponse)

\* upload: the response for the url generateUploadUrl returned
UploadResponse(generated) ==
  successResponse([uploadUrl |-> generated.url, fileId |-> generated.fileId,
                   expires |-> 300], 200)

\* handler upload: POST /files
Upload(p) ==
  /\ UNCHANGED outside
  /\ Free(p)
  /\ \E body \in Bodies(UploadBodies) :
       LET ev == Event(body, None)
       IN  IF body = None \/ ParseThrows(body)
               \/ Falsy(Field(body.val, "filename"))
               \/ Falsy(Field(body.val, "contentType"))
           THEN /\ Answer(p, "saveFileMetadata", ev,
                          IF body = None THEN errorResponse(NoBody, 400)
                          ELSE IF ParseThrows(body)
                          THEN errorResponse(Caught("saveFileMetadata"), 500)
                          ELSE errorResponse(FileFieldsRequired, 400))
                /\ uuids' = uuids
           ELSE /\ uuids < MaxTasks
                /\ uuids' = uuids + 1
                /\ IF Has(body.val, "size") /\ body.val.size # 0
                   THEN CallSaveFileMetadata(p, "handler", ev, uuidv4,
                                             body.val.filename,
                                             body.val.contentType,
                                             body.val.size)
                   ELSE Begin(p, "saveFileMetadata", "handler", ev, uuidv4,
                              NoVal, None, 0, "done",
                              UploadResponse(generateUploadUrl(
                                uuidv4, body.val.filename,
                                body.val.contentType)))
                /\ UNCHANGED <<table, queue, now, created, deleted>>

\* saveFileMetadata called by another caller than the handler, for an id
\* uuidv4 has returned or one of the caller's own
SaveFileMetadata(p) ==
  /\ UNCHANGED outside
  /\ Free(p)
  /\ \E fileId \in (1 .. uuids) \cup {ForeignId}, filename \in Filenames,
        contentType \in ContentTypes, size \in Sizes :
       CallSaveFileMetadata(p, "service", NoEvent, fileId, filename,
                            contentType, size)
  /\ UNCHANGED <<table, queue, now, uuids, created, deleted>>

\* await dynamoDb.put(...); return fileMetadata
SavePut(p) ==
  /\ UNCHANGED outside
  /\ pc[p] = "save_put"
  /\ \/ /\ table' = PutItem(table, FileItem(local[p].val))
        /\ writes' = [writes EXCEPT ![p] = @ + 1]
        /\ written' = [written EXCEPT ![p] = table'[taskId[p]]]
        /\ Returns(p, local[p],
                   UploadResponse(generateUploadUrl(taskId[p],
                                                    local[p].val.filename,
                                                    local[p].val.contentType)))
        /\ UNCHANGED <<queue, now, uuids, created, deleted, started, sends>>
     \/ Rejects(p)

\* the response of handler get for what getFileMetadata returned
FileResponse(r) ==
  IF r = Null THEN errorResponse(FileNotFound, 404)
  ELSE successResponse(
         [k \in DOMAIN r.val \cup {"downloadUrl"} |->
            IF k = "downloadUrl"
            THEN getFileUrl(Field(r.val, "id"), Field(r.val, "filename"))
            ELSE r.val[k]], 200)

\* getFileMetadata up to its await: calls get
CallGetFileMetadata(p, o, v, ev, fileId, at) ==
  /\ Begin(p, o, v, ev, fileId, NoVal, None, 0, at, NoResponse)
  /\ UNCHANGED <<table, queue, now, uuids, created, deleted>>

\* handler get of handlers/files.ts: GET /files/{id}
FileGet(p) ==
  /\ UNCHANGED outside
  /\ Free(p)
  /\ \E id \in PathIds :
       IF id = None
       THEN Answer(p, "getFileMetadata", Event(None, id),
                   errorResponse(FileIdMissing, 400))
       ELSE CallGetFileMetadata(p, "getFileMetadata", "handler",
                                Event(None, id), id.val, "file_get")

\* getFileMetadata called by another caller than the handlers
GetFileMetadata(p) ==
  /\ UNCHANGED outside
  /\ Free(p)
  /\ \E fileId \in TaskIds \cup {ForeignId} :
       CallGetFileMetadata(p, "getFileMetadata", "service", NoEvent, fileId,
                           "file_get")

\* await dynamoDb.get(...) of getFileMetadata, called by handler get
FileGetRead(p) ==
  /\ UNCHANGED outside
  /\ pc[p] = "file_get"
  /\ \/ /\ Returns(p, getFileMetadata(table, taskId[p]),
                   FileResponse(getFileMetadata(table, taskId[p])))
        /\ UNCHANGED <<shared, hist>>
     \/ Rejects(p)

\* handler remove of handlers/files.ts: DELETE /files/{id}
FileRemove(p) ==
  /\ UNCHANGED outside
  /\ Free(p)
  /\ \E id \in PathIds :
       IF id = None
       THEN Answer(p, "deleteFile", Event(None, id),
                   errorResponse(FileIdMissing, 400))
       ELSE CallGetFileMetadata(p, "deleteFile", "handler", Event(None, id),
                                id.val, "remove_get")

\* await fileService.getFileMetadata(fileId) of handler remove; on a record:
\* deleteFile up to its first await, which calls deleteObject
FileRemoveGet(p) ==
  /\ UNCHANGED outside
  /\ pc[p] = "remove_get"
  /\ \/ /\ getFileMetadata(table, taskId[p]) = Null
        /\ Returns(p, Null, errorResponse(FileNotFound, 404))
        /\ UNCHANGED <<shared, hist>>
     \/ /\ getFileMetadata(table, taskId[p]) # Null
        /\ local' = [local EXCEPT ![p] = getFileMetadata(table, taskId[p])]
        /\ pc' = [pc EXCEPT ![p] = "delete_object"]
        /\ UNCHANGED <<op, via, taskId, request, payload, timestamp, ret, resp>>
        /\ UNCHANGED <<shared, hist>>
     \/ Rejects(p)

\* deleteFile called by another caller than the handler
DeleteFile(p) ==
  /\ UNCHANGED outside
  /\ Free(p)
  /\ \E fileId \in TaskIds \cup {ForeignId}, filename \in Filenames :
       Begin(p, "deleteFile", "service", NoEvent, fileId, NoVal,
             Obj([filename |-> filename]), 0, "delete_object", NoResponse)
  /\ UNCHANGED <<table, queue, now, uuids, created, deleted>>

\* (a deleteFile without its try/catch)
DeleteFileThrows(p) == Rejects(p)

\* deleteFile's catch block: `return false`; handler remove answers 500
DeleteFileFails(p) ==
  /\ Returns(p, False, errorResponse(FileDeleteFailed, 500))
  /\ UNCHANGED <<shared, hist>>

\* await s3.deleteObject(...), then calls delete
DeleteObject(p) ==
  /\ UNCHANGED <<process, consumer>>
  /\ pc[p] = "delete_object"
  /\ \/ /\ bucket' = bucket \ {Key(taskId[p], Field(local[p].val, "filename"))}
        /\ pc' = [pc EXCEPT ![p] = "delete_record"]
        /\ UNCHANGED <<op, via, taskId, request, payload, local, timestamp,
                       ret, resp>>
        /\ UNCHANGED <<shared, hist>>
     \/ /\ DeleteFileFails(p)
        /\ bucket' = bucket

\* await dynamoDb.delete(...); return true
DeleteRecord(p) ==
  /\ UNCHANGED outside
  /\ pc[p] = "delete_record"
  /\ \/ /\ table' = DeleteItem(table, taskId[p])
        /\ deleted' = deleted \cup (DOMAIN table \cap {taskId[p]})
        /\ writes' = [writes EXCEPT ![p] = @ + 1]
        /\ Returns(p, True, successResponse([message |-> FileDeleted], 200))
        /\ UNCHANGED <<queue, now, uuids, created, started, sends, written>>
     \/ DeleteFileFails(p)

\* a holder of an upload url puts the object
PutObject ==
  /\ UNCHANGED <<process, consumer>>
  /\ \E fileId \in 1 .. uuids, filename \in Filenames :
       /\ Key(fileId, filename) \notin bucket
       /\ bucket' = bucket \cup {Key(fileId, filename)}
  /\ UNCHANGED <<shared, inv, hist>>

\* ---------------------------------------------------------- handler (health)
\* what a rejection of a collaborator call carries in err.message
Errors == {"timeout", "access denied"}

HealthMessage == "LocalStack AWS services API"

\* `result.x = r.error ? { status: 'error', details: r.error }
\*                     : { status: 'ok', details }`
Report(error, details) ==
  IF error # Undefined THEN [status |-> "error", details |-> error]
  ELSE [status |-> "ok", details |-> details]

\* result with one more property
With(result, k, v) ==
  [j \in DOMAIN result \cup {k} |-> IF j = k THEN v ELSE result[j]]

\* handler: GET /; checkServices up to its first await, which calls scan
Health(p) ==
  /\ UNCHANGED outside
  /\ Free(p)
  /\ Begin(p, "checkServices", "handler", NoEvent, ForeignId, NoVal,
           Obj(NoVal), 0, "check_dynamodb", NoResponse)
  /\ UNCHANGED <<table, queue, now, uuids, created, deleted>>

\* (a checkServices whose probes have no catch callback: a rejection reaches
\* the catch block of handler)
ProbedOrThrows(p, k, error, details, at) ==
  IF error # Undefined THEN Rejects(p)
  ELSE /\ local' = [local EXCEPT ![p] =
                      Obj(With(local[p].val, k, Report(error, details)))]
       /\ pc' = [pc EXCEPT ![p] = at]
       /\ UNCHANGED <<op, via, taskId, request, payload, timestamp, ret,
                      resp>>
       /\ UNCHANGED <<shared, hist>>

\* the probe p is suspended at resolved (error = Undefined) or its catch
\* callback returned `{ error: err.message }`; checkServices records it in
\* result.k and calls the next probe
Probed(p, k, error, details, at) ==
  /\ local' = [local EXCEPT ![p] =
                 Obj(With(local[p].val, k, Report(error, details)))]
  /\ pc' = [pc EXCEPT ![p] = at]
  /\ UNCHANGED <<op, via, taskId, request, payload, timestamp, ret, resp>>
  /\ UNCHANGED <<shared, hist>>

\* await dynamoDb.scan({ Limit: 1 }).promise().catch(...)
CheckDynamoDb(p) ==
  /\ UNCHANGED outside
  /\ pc[p] = "check_dynamodb"
  /\ \E error \in {Undefined} \cup Errors :
       Probed(p, "dynamodb", error,
              [tableExists |-> TRUE,
               itemCount |-> IF DOMAIN table = {} THEN 0 ELSE 1],
              "check_s3")

\* await s3.listObjects({ MaxKeys: 1 }).promise().catch(...)
CheckS3(p) ==
  /\ UNCHANGED outside
  /\ pc[p] = "check_s3"
  /\ \E error \in {Undefined} \cup Errors :
       Probed(p, "s3", error, [bucketExists |-> TRUE], "check_sqs")

\* the services report once the sqs probe has settled
Services(p, error) ==
  With(local[p].val, "sqs",
       Report(error, [queueExists |-> TRUE,
                      messageCount |-> BagCardinality(queue)]))

\* await sqs.getQueueAttributes(...).promise().catch(...); checkServices
\* returns result and handler answers, reading the clock
CheckSqs(p) ==
  /\ UNCHANGED outside
  /\ pc[p] = "check_sqs"
  /\ \E error \in {Undefined} \cup Errors :
       Returns(p, Obj(Services(p, error)),
               successResponse([message |-> HealthMessage,
                                stage |-> Or(env.STAGE, "dev"),
                                time |-> now,
                                services |-> Services(p, error)], 200))
  /\ UNCHANGED <<shared, hist>>

\* ------------------------------------------------------ the deployed API
\* Every handler of handlers/api.ts and handlers/files.ts, on one table, one
\* bucket and one queue.
ApiInvocations == 2    \* invocations started in one behaviour of the API

ApiFree == started < ApiInvocations

ApiNext ==
  \/ Tick
  \/ PutObject
  \/ \E p \in Procs : ApiFree /\ Create(p)
  \/ \E p \in Procs : CreatePut(p)
  \/ \E p \in Procs : CreateSend(p)
  \/ \E p \in Procs : ApiFree /\ Get(p)
  \/ \E p \in Procs : GetRead(p)
  \/ \E p \in Procs : ApiFree /\ List(p)
  \/ \E p \in Procs : ListScan(p)
  \/ \E p \in Procs : ApiFree /\ Update(p)
  \/ \E p \in Procs : UpdateGet(p)
  \/ \E p \in Procs : UpdateWrite(p)
  \/ \E p \in Procs : UpdateSend(p)
  \/ \E p \in Procs : UpdateReread(p)
  \/ \E p \in Procs : ApiFree /\ Remove(p)
  \/ \E p \in Procs : DeleteGet(p)
  \/ \E p \in Procs : DeleteWrite(p)
  \/ \E p \in Procs : DeleteSend(p)
  \/ \E p \in Procs : ApiFree /\ Upload(p)
  \/ \E p \in Procs : SavePut(p)
  \/ \E p \in Procs : ApiFree /\ FileGet(p)
  \/ \E p \in Procs : FileGetRead(p)
  \/ \E p \in Procs : ApiFree /\ FileRemove(p)
  \/ \E p \in Procs : FileRemoveGet(p)
  \/ \E p \in Procs : DeleteObject(p)
  \/ \E p \in Procs : DeleteRecord(p)
  \/ \E p \in Procs : ApiFree /\ Health(p)
  \/ \E p \in Procs : CheckDynamoDb(p)
  \/ \E p \in Procs : CheckS3(p)
  \/ \E p \in Procs : CheckSqs(p)

ApiSpec == Init /\ [][ApiNext]_vars

\* ------------------------------------------------------- the file service
\* FileService and the handlers of handlers/files.ts, on a table that also
\* holds the records createTask puts.
FileNext ==
  \/ Tick
  \/ PutObject
  \/ \E p \in Procs : Create(p)
  \/ \E p \in Procs : CreatePut(p)
  \/ \E p \in Procs : CreateSend(p)
  \/ \E p \in Procs : Upload(p)
  \/ \E p \in Procs : SaveFileMetadata(p)
  \/ \E p \in Procs : SavePut(p)
  \/ \E p \in Procs : FileGet(p)
  \/ \E p \in Procs : GetFileMetadata(p)
  \/ \E p \in Procs : FileGetRead(p)
  \/ \E p \in Procs : FileRemove(p)
  \/ \E p \in Procs : FileRemoveGet(p)
  \/ \E p \in Procs : DeleteFile(p)
  \/ \E p \in Procs : DeleteObject(p)
  \/ \E p \in Procs : DeleteRecord(p)

FileSpec == Init /\ [][FileNext]_vars

\* --------------------------------------------------------- queue consumer
MaxBatch == 2          \* records SQS hands to one invocation of process

\* a message of another producer, with an action processRecord does not know
UnknownAction == TaskMessage(1, "ARCHIVE", 0)

\* record.body: the JSON text of a message on the queue, or what another
\* producer sent: text that is not JSON, the text null, an unknown action
RecordBodies ==
  {Invalid, Null, Obj(UnknownAction)} \cup {Obj(m) : m \in BagToSet(queue)}

\* event.Records
Batches ==
  UNION {[1 .. n -> RecordBodies] : n \in 1 .. MaxBatch}

\* `const message = JSON.parse(record.body)` and the destructuring of
\* message throw
RecordThrows(body) == ParseThrows(body)

\* (a switch whose every case calls handleTaskUpdated)
BranchReadsAlways(message) == "handleTaskUpdated"

\* the case of `switch (action)` a message takes: the handler called, or
\* the default
Branch(message) ==
  CASE Field(message, "action") = "CREATE" -> "handleTaskCreated"
    [] Field(message, "action") = "UPDATE" -> "handleTaskUpdated"
    [] Field(message, "action") = "DELETE" -> "handleTaskDeleted"
    [] OTHER -> "default"

\* (a loop that logs the failure of a record and goes on to the next)
RECURSIVE RunSkipping(_, _, _)
RunSkipping(recs, i, done) ==
  IF i > Len(recs)
  THEN [awaiting |-> "resolved", cursor |-> i, handled |-> done]
  ELSE IF RecordThrows(recs[i]) THEN RunSkipping(recs, i + 1, done)
  ELSE IF Branch(recs[i].val) = "handleTaskUpdated"
  THEN [awaiting |-> "get", cursor |-> i, handled |-> done]
  ELSE RunSkipping(recs, i + 1, Append(done, <<i, Branch(recs[i].val)>>))

\* `for (const record of event.Records) await processRecord(record)` from
\* record i on, up to the next call of a collaborator: a record that
\* throws ends the loop and process rethrows; handleTaskCreated,
\* handleTaskDeleted and the default only log; handleTaskUpdated calls
\* getTaskById
RECURSIVE Run(_, _, _)
Run(recs, i, done) ==
  IF i > Len(recs)
  THEN [awaiting |-> "resolved", cursor |-> i, handled |-> done]
  ELSE IF RecordThrows(recs[i])
  THEN [awaiting |-> "rejected", cursor |-> i, handled |-> done]
  ELSE IF Branch(recs[i].val) = "handleTaskUpdated"
  THEN [awaiting |-> "get", cursor |-> i, handled |-> done]
  ELSE Run(recs, i + 1, Append(done, <<i, Branch(recs[i].val)>>))

\* the consumer goes on as Run says
Continue(run) ==
  /\ awaiting' = run.awaiting
  /\ cursor' = run.cursor
  /\ handled' = run.handled
  /\ reads' = IF run.awaiting = "get" THEN reads + 1 ELSE reads

\* process: SQS invokes the consumer with a batch of the messages it holds;
\* a message it delivered before and did not delete may come again
Process ==
  /\ awaiting \in {"idle", "rejected"}
  /\ \E batch \in Batches :
       /\ records' = batch
       /\ awaiting' = Run(batch, 1, << >>).awaiting
       /\ cursor' = Run(batch, 1, << >>).cursor
       /\ handled' = Run(batch, 1, << >>).handled
       /\ reads' = IF Run(batch, 1, << >>).awaiting = "get" THEN 1 ELSE 0
  /\ UNCHANGED <<bucket, process, shared, inv, hist>>

\* (a handleTaskUpdated that throws when it finds no task)
HandleTaskUpdatedThrows ==
  /\ awaiting = "get"
  /\ \/ /\ ~NotFound(GetItem(table, Field(records[cursor].val, "taskId")))
        /\ Continue(Run(records, cursor + 1,
                         Append(handled, <<cursor, "found">>)))
     \/ /\ awaiting' = "rejected"
        /\ UNCHANGED <<cursor, handled, reads>>
  /\ UNCHANGED <<records, bucket, process, shared, inv, hist>>

\* const task = await taskService.getTaskById(taskId) of handleTaskUpdated:
\* it logs the status of the task, or that there is none, and the loop goes
\* on; a rejection is rethrown
HandleTaskUpdated ==
  /\ awaiting = "get"
  /\ \/ Continue(Run(records, cursor + 1,
                      Append(handled,
                             <<cursor,
                               IF NotFound(GetItem(table,
                                             Field(records[cursor].val,
                                                   "taskId")))
                               THEN "not found" ELSE "found">>)))
     \/ /\ awaiting' = "rejected"
        /\ UNCHANGED <<cursor, handled, reads>>
  /\ UNCHANGED <<records, bucket, process, shared, inv, hist>>

\* the bag of the messages of a batch
RECURSIVE BatchBag(_)
BatchBag(recs) ==
  IF recs = << >> THEN EmptyBag
  ELSE BatchBag(Tail(recs))
         (+) (IF IsObj(Head(recs)) THEN SetToBag({Head(recs).val})
              ELSE EmptyBag)

\* process resolved: SQS deletes the messages of the batch, unless the
\* deletion is lost; after a rejection it keeps them
Acknowledge ==
  /\ awaiting = "resolved"
  /\ awaiting' = "idle"
  /\ \/ queue' = queue (-) BatchBag(records)
     \/ queue' = queue
  /\ UNCHANGED <<records, cursor, handled, reads>>
  /\ UNCHANGED <<table, now, uuids, created, deleted, started>>
  /\ UNCHANGED <<bucket, process, inv, hist>>

\* TaskService behind its handlers, one invocation at a time, and the
\* consumer of the queue it sends to
QueueNext ==
  \/ Process
  \/ HandleTaskUpdated
  \/ Acknowledge
  \/ Create(1)
  \/ CreatePut(1)
  \/ CreateSend(1)
  \/ UpdateTask(1)
  \/ UpdateGet(1)
  \/ UpdateWrite(1)
  \/ UpdateSend(1)
  \/ UpdateReread(1)
  \/ Remove(1)
  \/ DeleteGet(1)
  \/ DeleteWrite(1)
  \/ DeleteSend(1)

QueueSpec == Init /\ [][QueueNext]_vars

\* -------------------------------------------------- environment resolution
\* A process starts with some settings, loads utils/aws-clients, whose
\* top-level code resolves the stage and configures the clients, and
\* saveFileMetadata builds the url of a record.
EnvInit ==
  /\ NoInvocation
  /\ env \in Envs
  /\ module = None
  /\ url = None

\* import of utils/aws-clients
LoadAwsClients ==
  /\ module = None
  /\ module' = Obj(AwsClients(env))
  /\ UNCHANGED <<env, url, bucket, consumer, shared, inv, hist>>

\* saveFileMetadata up to its await: fileUrl, localstackUrl and the choice
\* between them
SaveFileMetadataUrl ==
  /\ module # None
  /\ url = None
  /\ \E fileId \in TaskIds, filename \in Filenames :
       url' = Obj(FileUrl(env, fileId, filename))
  /\ UNCHANGED <<env, module, bucket, consumer, shared, inv, hist>>

EnvNext ==
  \/ LoadAwsClients
  \/ SaveFileMetadataUrl

EnvSpec == EnvInit /\ [][EnvNext]_vars

\* ================================================================ claims
\* number of messages on the queue for task id with the given action
MessagesIn(q, id, action) ==
  LET S == {m \in BagToSet(q) : m.taskId = id /\ m.action = action}
  IN  BagCardinality([m \in S |-> q[m]])
Messages(id, action) == MessagesIn(queue, id, action)

Finished(p, o) == op[p] = o /\ pc[p] = "done"
ActionOf(o) ==
  CASE o = "createTask" -> "CREATE"
    [] o = "updateTask" -> "UPDATE"
    [] o = "deleteTask" -> "DELETE"
\* p took a step out of the await `at`
Leaves(p, at) == pc[p] = at /\ pc'[p] # at

\* C1: a createTask that returns has persisted the Task it returns, whose
\* status is TODO, whose createdAt is the clock reading, which has no
\* updatedAt and whose id no other created task has; exactly one CREATE
\* message carrying that id is on the queue.
C1_CreateTaskContract ==
  \A p \in Procs :
    (Finished(p, "createTask") /\ IsObj(ret[p])) =>
      LET task == ret[p].val
      IN  /\ writes[p] = 1 /\ written[p] = task
          /\ task.status = TODO
          /\ Has(task, "createdAt") /\ task.createdAt \in 1 .. MaxClock
          /\ ~Has(task, "updatedAt")
          /\ Cardinality({i \in DOMAIN created : created[i].id = task.id}) = 1
          /\ Messages(task.id, "CREATE") = 1

\* a createTask returned while another task had been created before
C1_Witness ==
  \E p \in Procs :
    /\ Finished(p, "createTask") /\ IsObj(ret[p])
    /\ Len(created) = 2 /\ ret[p].val.id = created[2].id

\* C2: when updateTask's existence check finds no record under id, the
\* call returns null there (404 from the handler), the table and the
\* queue are as before, and the invocation has written and sent nothing.
C2_UpdateUnknownId ==
  [][\A p \in Procs :
       (Leaves(p, "update_get") /\ taskId[p] \notin DOMAIN table
          /\ ret'[p] # Thrown) =>
         /\ pc'[p] = "done" /\ ret'[p] = Null
         /\ via[p] = "handler" => resp'[p].statusCode = 404
         /\ table' = table /\ queue' = queue
         /\ writes'[p] = 0 /\ sends'[p] = 0]_vars

\* an updateTask on an id without record has returned null, for a payload
\* that names fields
C2_Witness ==
  \E p \in Procs :
    /\ Finished(p, "updateTask") /\ ret[p] = Null /\ writes[p] = 0
    /\ table = << >> /\ uuids = 0

\* C3: every stored record carries its key as id; a record that was never
\* deleted carries the createdAt createTask gave it; and the item an
\* updateTask wrote carries every other field of its payload.
C3_IdCreatedAtImmutable ==
  /\ \A id \in DOMAIN table :
        /\ table[id].id = id
        /\ id \notin deleted =>
             \E i \in DOMAIN created :
               /\ created[i].id = id
               /\ Has(table[id], "createdAt")
               /\ table[id].createdAt = created[i].createdAt
  /\ \A p \in Procs :
        (op[p] = "updateTask" /\ pc[p] = "update_send") =>
          \A k \in DOMAIN payload[p] \ {"id", "createdAt", "updatedAt"} :
            Has(written[p], k) /\ written[p][k] = payload[p][k]

\* updates whose payload names id, createdAt and status DONE have been
\* written, one through the handler and one through updateTask directly
C3_Witness ==
  \E p, q \in Procs :
    /\ op[p] = "updateTask" /\ pc[p] = "update_send" /\ via[p] = "handler"
    /\ op[q] = "updateTask" /\ pc[q] = "update_send" /\ via[q] = "service"
    /\ \A r \in {p, q} :
         /\ Has(payload[r], "id") /\ Has(payload[r], "createdAt")
         /\ written[r].status = DONE
         /\ written[r].createdAt # ForeignTime


\* C4: deleteTask whose existence check finds a record goes on to delete
\* it: right after the delete a getTaskById(id) finds nothing, no other
\* record is touched, and the call sends one DELETE message for id and
\* returns true; when the check finds no record the call returns false
\* there, with the table and the queue as before and nothing sent.
C4_DeleteTaskContract ==
  [][\A p \in Procs :
       /\ (Leaves(p, "delete_get") /\ ret'[p] # Thrown) =>
            /\ table' = table /\ queue' = queue
            /\ writes'[p] = 0 /\ sends'[p] = 0
            /\ IF taskId[p] \in DOMAIN table
               THEN pc'[p] = "delete_write"
               ELSE /\ pc'[p] = "done" /\ ret'[p] = False
                    /\ via[p] = "handler" => resp'[p].statusCode = 404
       /\ (Leaves(p, "delete_write") /\ ret'[p] # Thrown) =>
            /\ GetItem(table', taskId[p]) = Null
            /\ \A id \in DOMAIN table \ {taskId[p]} :
                 id \in DOMAIN table' /\ table'[id] = table[id]
            /\ writes'[p] = 1 /\ sends'[p] = 1
            /\ pc'[p] = "delete_send" /\ queue' = queue
       /\ (Leaves(p, "delete_send") /\ ret'[p] # Thrown) =>
            /\ pc'[p] = "done" /\ ret'[p] = True
            /\ via[p] = "handler" => resp'[p].statusCode = 200
            /\ table' = table
            /\ BagCardinality(queue') = BagCardinality(queue) + 1
            /\ MessagesIn(queue', taskId[p], "DELETE")
                 = MessagesIn(queue, taskId[p], "DELETE") + 1
            /\ writes'[p] = 1 /\ sends'[p] = 1]_vars

\* one deleteTask has returned true for a task that is gone, with its one
\* DELETE message sent, and another has returned false
C4_Witness ==
  \E p, q \in Procs :
    /\ Finished(p, "deleteTask") /\ ret[p] = True
    /\ taskId[p] \notin DOMAIN table /\ taskId[p] \in deleted
    /\ Messages(taskId[p], "DELETE") = 1
    /\ Finished(q, "deleteTask") /\ ret[q] = False /\ writes[q] = 0

\* C5: an invocation has called sendMessage exactly as often as a store
\* write of its own took effect, at most once; a message enters the queue
\* only by the send of an invocation whose store write took effect.
C5_OneSendAfterWrite ==
  [][/\ \A p \in Procs :
          /\ writes'[p] <= 1 /\ sends'[p] = writes'[p]
          /\ sends'[p] > sends[p] => writes'[p] > writes[p]
     /\ queue' # queue =>
          \E p \in Procs :
            /\ pc[p] \in {"create_send", "update_send", "delete_send"}
            /\ pc'[p] # pc[p]
            /\ writes[p] = 1 /\ sends[p] = 1
            /\ BagCardinality(queue') = BagCardinality(queue) + 1
            /\ MessagesIn(queue', taskId[p], ActionOf(op[p]))
                 = MessagesIn(queue, taskId[p], ActionOf(op[p])) + 1]_vars

\* a createTask whose put was rejected has ended without a send, while an
\* updateTask whose write took effect has made its one send
C5_Witness ==
  \E p, q \in Procs :
    /\ Finished(p, "createTask") /\ ret[p] = Thrown
    /\ writes[p] = 0 /\ sends[p] = 0
    /\ op[q] = "updateTask" /\ pc[q] = "update_reread"
    /\ writes[q] = 1 /\ sends[q] = 1 /\ Messages(taskId[q], "UPDATE") = 1

\* C6: a createTask whose put took effect reports success, whether or not
\* its CREATE message was accepted: it returns the Task, the handler
\* answers 201, and the record was not rolled back.
C6_CreateSurvivesSendFailure ==
  \A p \in Procs :
    (Finished(p, "createTask") /\ writes[p] = 1) =>
      /\ taskId[p] \in DOMAIN table \/ taskId[p] \in deleted
      /\ IsObj(ret[p])
      /\ via[p] = "handler" => resp[p].statusCode = 201

\* C7: when the send of updateTask or deleteTask is rejected, the call
\* throws there (the handler answers 500) and the table keeps the write
\* the call made: nothing is undone.
C7_SendFailurePropagates ==
  [][\A p \in Procs :
       ((Leaves(p, "update_send") \/ Leaves(p, "delete_send"))
          /\ queue' = queue) =>
         /\ pc'[p] = "done" /\ ret'[p] = Thrown
         /\ via[p] = "handler" => resp'[p].statusCode = 500
         /\ table' = table /\ writes'[p] = 1]_vars

\* an update and a delete both ended by throwing after their write, with no
\* message sent: the handler answered 500 and the record is gone
C7_Witness ==
  \E p, q \in Procs :
    /\ Finished(p, "updateTask") /\ ret[p] = Thrown /\ writes[p] = 1
    /\ via[p] = "handler" /\ resp[p].statusCode = 500
    /\ Has(written[p], "updatedAt")
    /\ Messages(taskId[p], "UPDATE") = 0
    /\ Finished(q, "deleteTask") /\ ret[q] = Thrown /\ writes[q] = 1
    /\ resp[q].statusCode = 500
    /\ Messages(taskId[q], "DELETE") = 0
    /\ taskId[q] \in deleted /\ taskId[q] \notin DOMAIN table

\* C8: what a successful updateTask returns is what the table holds under
\* id when the re-read runs (null when it holds nothing).
C8_ReturnsReread ==
  [][\A p \in Procs :
       (Leaves(p, "update_reread") /\ ret'[p] # Thrown) =>
         /\ ret'[p] = GetItem(table, taskId[p])
         /\ via[p] = "handler" =>
              resp'[p].statusCode
                = IF taskId[p] \in DOMAIN table THEN 200 ELSE 404]_vars

\* an updateTask returned a Task that is not the item it wrote but the one
\* another invocation's update wrote in between
C8_Witness ==
  \E p, q \in Procs :
    /\ p # q
    /\ Finished(p, "updateTask") /\ IsObj(ret[p])
    /\ ret[p].val # written[p]
    /\ op[q] = "updateTask" /\ writes[q] = 1 /\ taskId[q] = taskId[p]
    /\ ret[p].val = written[q]

C10_StatusInTaskStatus ==
  /\ \A id \in DOMAIN table :
        Has(table[id], "status") => table[id].status \in TaskStatus
  /\ \A p \in Procs :
        (op[p] = "createTask" /\ writes[p] = 1) => written[p].status = TODO

\* the step starts an invocation on frame p
Starts(p) == Free(p) /\ started' = started + 1

\* the body carries no title a task can have: none at all (the body is the
\* JSON text null, or an object without title) or the empty string
NoTitle(body) ==
  \/ body = Null
  \/ IsObj(body) /\ Field(body.val, "title") \in {Undefined, ""}

\* C11: a create request with no body, or whose body has no title or an
\* empty one, is answered 400 at once, with the table and the queue as
\* before and no write and no send by the invocation; and createTask is
\* entered only with the non-empty title of the body.
C11_CreateValidates ==
  [][\A p \in Procs :
       (Starts(p) /\ op'[p] = "createTask" /\ via'[p] = "handler") =>
         LET body == request'[p].body
         IN  /\ (body = None \/ NoTitle(body)) =>
                  /\ pc'[p] = "done" /\ resp'[p].statusCode = 400
                  /\ table' = table /\ queue' = queue /\ created' = created
                  /\ writes'[p] = 0 /\ sends'[p] = 0
             /\ pc'[p] = "create_put" =>
                  /\ IsObj(body) /\ Has(body.val, "title")
                  /\ body.val.title # ""
                  /\ local'[p].val.title = body.val.title]_vars

\* the invocation on p ends in this step: at once or from an await
Ends(p) ==
  /\ pc'[p] = "done"
  /\ Starts(p) \/ pc[p] \notin {"idle", "done"}

\* with the event ev, the handler of method o reaches JSON.parse
Parses(o, ev) ==
  /\ o \in {"createTask", "updateTask", "saveFileMetadata"}
  /\ ev.body # None
  /\ o = "updateTask" => ev.id # None

\* the invocation that ends on p caught an exception: of JSON.parse or of the
\* handler's use of what it parsed, of a collaborator call, or, inside
\* deleteFile, of one of its two deletions
Exception(p) ==
  \/ ret'[p] = Thrown
  \/ op'[p] = "deleteFile" /\ ret'[p] = False
  \/ Starts(p) /\ Parses(op'[p], request'[p])
       /\ request'[p].body \in {Invalid, Null}

\* the invocation that ends on p had a request without a required input: the
\* body, the id of the path, or a required property of the body
MissingInput(p) ==
  /\ Starts(p)
  /\ LET o == op'[p]
         ev == request'[p]
     IN  \/ o \in {"createTask", "updateTask", "saveFileMetadata"}
              /\ ev.body = None
         \/ o \in {"getTaskById", "updateTask", "deleteTask",
                    "getFileMetadata", "deleteFile"} /\ ev.id = None
         \/ o = "createTask" /\ IsObj(ev.body)
              /\ Field(ev.body.val, "title") \in {Undefined, ""}
         \/ o = "saveFileMetadata" /\ IsObj(ev.body)
              /\ \E k \in {"filename", "contentType"} :
                    Field(ev.body.val, k) \in {Undefined, ""}

\* the method found no record under the id
UnknownId(p) ==
  \/ ret'[p] = Null
  \/ op'[p] = "deleteTask" /\ ret'[p] = False

\* C12: every invocation of a handler ends with a response envelope: its
\* statusCode is 500 when an exception was caught, else 400 when a required
\* input was missing, else 404 when the id was unknown, else 201 for a create
\* and 200 for any other handler; its headers carry Content-Type
\* application/json and Access-Control-Allow-Origin '*'.
C12_ResponseEnvelope ==
  [][\A p \in Procs :
       (Ends(p) /\ via'[p] = "handler") =>
         /\ resp'[p].headers.ContentType = "application/json"
         /\ resp'[p].headers.AccessControlAllowOrigin = "*"
         /\ resp'[p].statusCode =
              IF Exception(p) THEN 500
              ELSE IF MissingInput(p) THEN 400
              ELSE IF UnknownId(p) THEN 404
              ELSE IF op'[p] = "createTask" THEN 201
              ELSE 200]_vars

\* a create handler has answered 201 and a get handler, for an id without a
\* record, 404
C12_Witness ==
  /\ pc[1] = "done" /\ op[1] = "createTask" /\ via[1] = "handler"
  /\ resp[1].statusCode = 201 /\ resp[1].headers = Headers
  /\ pc[2] = "done" /\ op[2] = "getTaskById" /\ via[2] = "handler"
  /\ ret[2] = Null /\ resp[2].statusCode = 404

\* C13: the response of a handler does not carry the content of a
\* collaborator failure: two health responses that report the same service
\* in error report it alike.
C13_NoFailureContent ==
  \A p, q \in Procs :
    ( /\ pc[p] = "done" /\ op[p] = "checkServices"
      /\ pc[q] = "done" /\ op[q] = "checkServices" ) =>
      \A k \in {"dynamodb", "s3", "sqs"} :
        LET reportP == resp[p].body.services[k]
            reportQ == resp[q].body.services[k]
        IN  (reportP.status = "error" /\ reportQ.status = "error") =>
              reportP.details = reportQ.details

\* ------------------------------------------------- environment resolution
\* a client configuration of the real-remote mode: the region and nothing else
RealRemote(config) == DOMAIN config = {"region"}

\* a client configuration of the local-emulated mode for host
LocalEmulated(config, host) ==
  /\ DOMAIN config = {"region", "endpoint", "credentials"}
  /\ config.endpoint \in {<<"http://", host, ":4566">>,
                           <<"http://" \o host \o ":4566">>}
  /\ config.credentials = [accessKeyId |-> "test", secretAccessKey |-> "test"]

\* C14: the resolved stage is STAGE when STAGE is set and not empty;
\* otherwise local, dev, staging, prod for NODE_ENV local, development,
\* staging, production; otherwise dev.
C14_StageResolution ==
  module # None =>
    module.val.stage =
      IF env.STAGE \notin {Undefined, ""} THEN env.STAGE
      ELSE CASE env.NODE_ENV = "local" -> "local"
             [] env.NODE_ENV = "development" -> "dev"
             [] env.NODE_ENV = "staging" -> "staging"
             [] env.NODE_ENV = "production" -> "prod"
             [] OTHER -> "dev"

\* the module was loaded with STAGE empty and NODE_ENV production, and
\* resolved prod
C14_Witness ==
  /\ module # None /\ module.val.stage = "prod"
  /\ env.STAGE = "" /\ env.NODE_ENV = "production"

\* C15: the store, object store and queue clients all get the same mode:
\* real-remote when IS_PRODUCTION is 'true'; otherwise local-emulated, at
\* LOCALSTACK_HOSTNAME or localhost, when LOCALSTACK_HOSTNAME is set or the
\* stage is local or dev; otherwise real-remote.
C15_SameModeForAllClients ==
  module # None =>
    \A config \in {module.val.dynamoDb, module.val.s3, module.val.sqs} :
      IF env.IS_PRODUCTION = "true" THEN RealRemote(config)
      ELSE IF env.LOCALSTACK_HOSTNAME \notin {Undefined, ""}
      THEN LocalEmulated(config, env.LOCALSTACK_HOSTNAME)
      ELSE IF module.val.stage \in {"local", "dev"}
      THEN LocalEmulated(config, "localhost")
      ELSE RealRemote(config)

\* C16: the queue address is TASKS_QUEUE_URL when that is set; otherwise it
\* has the form https://sqs.<region>.amazonaws.com/<account>/<queue> exactly
\* when the resolved mode is real-remote and the form
\* http://<host>:4566/000000000000/<queue> exactly when it is local-emulated.
C16_QueueAddressAgreesWithMode ==
  module # None =>
    LET address == module.val.TASKS_QUEUE
        resolved == module.val.dynamoDb
    IN  IF env.TASKS_QUEUE_URL \notin {Undefined, ""}
        THEN address = env.TASKS_QUEUE_URL
        ELSE /\ (address[1] = "https://sqs." /\ address[3] = ".amazonaws.com/")
                  <=> RealRemote(resolved)
             /\ (address[1] = "http://" /\ address[3] = ":4566/000000000000/")
                  <=> ~RealRemote(resolved)

\* C20: the url saveFileMetadata stores has the form
\* http://localhost:4566/<bucket>/<fileId>/<filename> exactly when the
\* resolved stage is local, and https://<bucket>.s3.amazonaws.com/<fileId>/
\* <filename> otherwise.
C20_FileUrlFollowsStage ==
  (module # None /\ url # None) =>
    IF module.val.stage = "local"
    THEN url.val[1] = "http://localhost:4566/"
           /\ url.val[2] = module.val.FILES_BUCKET
    ELSE url.val[1] = "https://" /\ url.val[2] = module.val.FILES_BUCKET
           /\ url.val[3] = ".s3.amazonaws.com/"

\* ------------------------------------------------------------ file service
\* getFileMetadata returns on p in this step
GetFileMetadataReturns(p) ==
  /\ pc[p] = "file_get" /\ pc'[p] = "done" /\ ret'[p] # Thrown

\* saveFileMetadata has returned on q for the id p asks for, and the record
\* it put is the one the table holds
Saved(q, p) ==
  /\ pc[q] = "done" /\ op[q] = "saveFileMetadata" /\ IsObj(ret[q])
  /\ taskId[q] = taskId[p]
  /\ taskId[p] \in DOMAIN table /\ table[taskId[p]] = written[q]

\* C17: getFileMetadata, called for the id of a record saveFileMetadata put
\* and returned, returns a record equal to the one saveFileMetadata returned;
\* and once deleteFile has returned true for an id, getFileMetadata of what
\* the table then holds is null.
C17_RoundTrip ==
  [][\A p \in Procs :
       /\ GetFileMetadataReturns(p) =>
            \A q \in Procs : Saved(q, p) => ret'[p] = ret[q]
       /\ (Ends(p) /\ op'[p] = "deleteFile" /\ ret'[p] = True) =>
            getFileMetadata(table', taskId'[p]) = Null]_vars

\* saveFileMetadata returned a record with size 7 on frame 1, and
\* getFileMetadata returned an equal record on frame 2
C17_Witness ==
  /\ pc[1] = "done" /\ op[1] = "saveFileMetadata" /\ IsObj(ret[1])
  /\ ret[1].val.size = 7
  /\ pc[2] = "done" /\ op[2] = "getFileMetadata" /\ ret[2] = ret[1]
  /\ taskId[1] = taskId[2]

\* the table holds no record tagged FILE under id
NoFileRecord(id) ==
  \/ id \notin DOMAIN table
  \/ ~Has(table[id], "type")
  \/ table[id].type # "FILE"

\* C18: when the table has no record under the id, or one that is not
\* tagged FILE, getFileMetadata returns null, and the get and remove
\* handlers of the files answer 404 and leave the bucket and the table as
\* they are.
C18_OnlyFileRecords ==
  [][\A p \in Procs :
       ( /\ pc[p] \in {"file_get", "remove_get"}
         /\ pc'[p] # pc[p] /\ ret'[p] # Thrown
         /\ NoFileRecord(taskId[p]) ) =>
           /\ pc'[p] = "done" /\ ret'[p] = Null
           /\ via[p] = "handler" => resp'[p].statusCode = 404
           /\ table' = table /\ bucket' = bucket
           /\ writes'[p] = 0]_vars

\* the remove handler of the files answered 404 for the id of a task, which
\* the table still holds
C18_Witness ==
  \E p \in Procs :
    /\ pc[p] = "done" /\ op[p] = "deleteFile" /\ via[p] = "handler"
    /\ ret[p] = Null /\ resp[p].statusCode = 404
    /\ taskId[p] \in DOMAIN table /\ ~Has(table[taskId[p]], "type")
    /\ table[taskId[p]].title = "A"

\* C19: deleteFile calls deleteObject first and leaves the table as it is
\* until that has succeeded; it returns true or false and never throws;
\* when deleteObject fails it returns false with the bucket and the table as
\* they were; and it returns true only from its second deletion, which
\* leaves no record under the id.
C19_DeleteFileOrder ==
  [][\A p \in Procs :
       /\ (pc[p] = "delete_object" /\ pc'[p] # pc[p]) =>
            /\ table' = table
            /\ pc'[p] \in {"delete_record", "done"}
            /\ pc'[p] = "done" =>
                 ret'[p] = False /\ bucket' = bucket /\ writes'[p] = 0
       /\ (pc[p] = "delete_record" /\ pc'[p] # pc[p]) =>
            /\ pc'[p] = "done" /\ ret'[p] \in {True, False}
            /\ ret'[p] = True => taskId[p] \notin DOMAIN table'
            /\ ret'[p] = False => table' = table
       /\ (op'[p] = "deleteFile" /\ ret'[p] = True /\ ret[p] # True) =>
            pc[p] = "delete_record"]_vars

\* deleteObject failed: deleteFile returned false, and the object and the
\* record are still there
C19_Witness ==
  \E p \in Procs :
    /\ pc[p] = "done" /\ op[p] = "deleteFile" /\ ret[p] = False
    /\ writes[p] = 0
    /\ taskId[p] \in DOMAIN table /\ ~NoFileRecord(taskId[p])
    /\ Key(taskId[p], table[taskId[p]].filename) \in bucket

\* ---------------------------------------------------------------- upload
\* the upload handler starts on p with a body that has filename and
\* contentType
UploadStarts(p) ==
  /\ Starts(p) /\ op'[p] = "saveFileMetadata" /\ via'[p] = "handler"
  /\ IsObj(request'[p].body)
  /\ \A k \in {"filename", "contentType"} :
       Field(request'[p].body.val, k) \notin {Undefined, ""}

\* C21: an upload request with filename and contentType that declares a
\* size, whatever number it is, makes the handler put the metadata record
\* before it answers, and when the put has taken effect the record under the
\* id is the one write of the invocation; a request that declares no size is
\* answered at once with no write.
C21_UploadPersistsDeclaredSize ==
  [][\A p \in Procs :
       /\ UploadStarts(p) =>
            IF Has(request'[p].body.val, "size")
            THEN /\ pc'[p] = "save_put"
                 /\ local'[p].val.id = taskId'[p]
                 /\ local'[p].val.size = request'[p].body.val.size
            ELSE /\ pc'[p] = "done" /\ resp'[p].statusCode = 200
                 /\ writes'[p] = 0 /\ table' = table
       /\ (Leaves(p, "save_put") /\ via[p] = "handler"
             /\ resp'[p].statusCode = 200) =>
            /\ writes'[p] = 1
            /\ resp'[p].body.fileId = taskId[p]
            /\ getFileMetadata(table', taskId[p]) = local[p]]_vars

\* ---------------------------------------------------------------- health
\* the report has an entry ok or error for each of the services in S, and
\* for no other
Reports(result, S) ==
  /\ DOMAIN result = S
  /\ \A k \in S : result[k].status \in {"ok", "error"}

FileRecord(id) == id \in DOMAIN table /\ IsFile(table[id])

\* C29: listTasks returns no record tagged FILE; getTaskById called with the
\* id of such a record returns null; and updateTask and deleteTask, finding
\* such a record at their existence check, return not found with the table
\* and the queue as they are.
C29_TaskOperationsSkipFileRecords ==
  [][\A p \in Procs :
       /\ (Leaves(p, "list_scan") /\ IsObj(ret'[p])) =>
            \A id \in DOMAIN ret'[p].val : ~IsFile(ret'[p].val[id])
       /\ (Leaves(p, "get_read") /\ ret'[p] # Thrown
             /\ FileRecord(taskId[p])) =>
            ret'[p] = Null
       /\ (Leaves(p, "update_get") /\ ret'[p] # Thrown
             /\ FileRecord(taskId[p])) =>
            pc'[p] = "done" /\ ret'[p] = Null
              /\ table' = table /\ queue' = queue
       /\ (Leaves(p, "delete_get") /\ ret'[p] # Thrown
             /\ FileRecord(taskId[p])) =>
            pc'[p] = "done" /\ ret'[p] = False
              /\ table' = table /\ queue' = queue]_vars

\* --------------------------------------------------- update and delete
\* the update call of updateTask on p takes effect in this step
UpdateTakesEffect(p) ==
  Leaves(p, "update_write") /\ pc'[p] = "update_send"

\* the update call p is suspended at can take effect
UpdateCanTakeEffect(p) == ENABLED (UpdateWrite(p) /\ pc'[p] = "update_send")

\* C24: the update call of updateTask can take effect whatever the payload,
\* and when it does every field the payload names other than id and
\* createdAt has the payload's value, updatedAt has the time updateTask
\* read, and every other field of the stored record is as it was.
C24_UpdateMerges ==
  [][\A p \in Procs :
       /\ pc[p] = "update_write" => UpdateCanTakeEffect(p)
       /\ UpdateTakesEffect(p) =>
            LET id == taskId[p]
                named == DOMAIN payload[p] \ {"id", "createdAt", "updatedAt"}
            IN  /\ \A k \in named : table'[id][k] = payload[p][k]
                /\ table'[id].updatedAt = timestamp[p]
                /\ id \in DOMAIN table =>
                     \A k \in DOMAIN table[id] \ (named \cup {"updatedAt"}) :
                       table'[id][k] = table[id][k]]_vars

\* C27: no id a delete removed the record of has a record, and every record
\* has the id, the title, the status and the createdAt of a task createTask
\* built.
C27_DeleteIsFinal ==
  \A id \in DOMAIN table :
    /\ id \notin deleted
    /\ {"id", "title", "status", "createdAt"} \subseteq DOMAIN table[id]
    /\ \E i \in DOMAIN created :
         created[i].id = id /\ created[i].createdAt = table[id].createdAt

\* C28: when the update call of an updateTask takes effect on the record
\* another updateTask's update call left, the fields it assigns have its
\* values and every other field keeps the value the other call left.
C28_ConcurrentUpdatesMerge ==
  [][\A p, q \in Procs :
       ( /\ UpdateTakesEffect(p)
         /\ q # p /\ op[q] = "updateTask" /\ writes[q] = 1
         /\ taskId[q] = taskId[p]
         /\ taskId[p] \in DOMAIN table /\ table[taskId[p]] = written[q] ) =>
           LET mine == UpdateValues(Updates(p), timestamp[p])
           IN  /\ \A k \in DOMAIN mine : table'[taskId[p]][k] = mine[k]
               /\ \A k \in DOMAIN written[q] \ DOMAIN mine :
                    /\ Has(table'[taskId[p]], k)
                    /\ table'[taskId[p]][k] = written[q][k]]_vars

\* two updateTask calls on one task, one assigning the title and the other
\* the status, both took effect: the record has both values
C28_Witness ==
  /\ op[1] = "updateTask" /\ writes[1] = 1
  /\ op[2] = "updateTask" /\ writes[2] = 1
  /\ taskId[1] = taskId[2] /\ taskId[1] \in DOMAIN table
  /\ written[1].title = "B" /\ written[1].status = TODO
  /\ written[2] = table[taskId[2]]
  /\ table[taskId[2]].title = "B" /\ table[taskId[2]].status = IN_PROGRESS

\* C30: of the deleteTask calls on one id at most one returns true, and at
\* most one DELETE message for the id is on the queue.
C30_OneDeleteWins ==
  /\ \A p, q \in Procs :
        ( /\ p # q /\ taskId[p] = taskId[q]
          /\ Finished(p, "deleteTask") /\ Finished(q, "deleteTask") ) =>
            ~(ret[p] = True /\ ret[q] = True)
  /\ \A id \in TaskIds : Messages(id, "DELETE") <= 1

\* --------------------------------------------------------- queue consumer
\* the consumer has handled the records 1 .. n of its batch, in this order
HandledInOrder(n) ==
  /\ Len(handled) = n
  /\ \A j \in 1 .. n : handled[j][1] = j

\* record i of the batch is a message with action UPDATE
IsUpdate(i) ==
  IsObj(records[i]) /\ Field(records[i].val, "action") = "UPDATE"

\* the records handled are those before the one the consumer is at, and
\* the whole batch, none of it unparsable, once the invocation resolved
BatchOrder ==
  /\ awaiting = "get" =>
       cursor \in 1 .. Len(records) /\ HandledInOrder(cursor - 1)
  /\ awaiting = "rejected" =>
       cursor \in 1 .. Len(records) /\ HandledInOrder(cursor - 1)
  /\ awaiting = "resolved" =>
       /\ HandledInOrder(Len(records))
       /\ \A i \in 1 .. Len(records) : records[i] \notin {Invalid, Null}

\* C22: the consumer handles the records of its batch in batch order; a
\* record that cannot be parsed, or whose handling fails, ends the
\* invocation by a rethrow with the later records not handled; the
\* invocation resolves only with every record handled; and messages leave
\* the queue only after it resolved.
C22_BatchAllOrNothing ==
  [][/\ BatchOrder'
     /\ awaiting = "get" =>
          /\ records' = records
          /\ SubSeq(handled', 1, Len(handled)) = handled
     /\ BagCardinality(queue') < BagCardinality(queue) =>
          awaiting = "resolved" /\ awaiting' = "idle"]_vars

\* the first record of a batch of two could not be parsed: the invocation
\* was rejected and the second record, a message, was not handled
C22_Witness ==
  /\ awaiting = "rejected" /\ cursor = 1 /\ handled = << >>
  /\ Len(records) = 2 /\ records[1] = Invalid /\ IsObj(records[2])
  /\ records[2].val.action = "CREATE"

\* C23: the steps of the consumer leave the table, the queue and the bucket
\* as they are, whatever the messages and however often they come; and the
\* consumer has called getTaskById once for each UPDATE message it has got
\* to, and made no other call.
C23_ConsumerHasNoEffect ==
  [][/\ (consumer' # consumer /\ awaiting' # "idle") =>
          table' = table /\ queue' = queue /\ bucket' = bucket
     /\ reads' = Cardinality({i \in 1 .. Len(records') :
                                i <= cursor' /\ IsObj(records'[i])
                                /\ Field(records'[i].val, "action") = "UPDATE"})
    ]_vars

\* the consumer resolved after handling the same DELETE message twice, with
\* no call, and the message is still on the queue
C23_Witness ==
  /\ awaiting = "resolved" /\ reads = 0
  /\ Len(records) = 2 /\ records[1] = records[2] /\ IsObj(records[1])
  /\ records[1].val.action = "DELETE"
  /\ records[1].val \in BagToSet(queue)
  /\ Len(handled) = 2

\* handleTaskUpdated can return: the record the consumer is at gets handled
HandlingCanComplete ==
  ENABLED (HandleTaskUpdated /\ Len(handled') > Len(handled))

\* C26: when getTaskById resolves, handleTaskUpdated completes whether or
\* not the task is there; and the invocation is rejected only at a record
\* that cannot be parsed or at an UPDATE message whose read was rejected:
\* not at a message that comes again, nor at one with an unknown action.
C26_ToleratesDelivery ==
  [][/\ awaiting = "get" => HandlingCanComplete
     /\ (awaiting' = "rejected" /\ consumer' # consumer) =>
          \/ records'[cursor'] \in {Invalid, Null}
          \/ /\ awaiting = "get" /\ IsUpdate(cursor)
             /\ cursor' = cursor /\ handled' = handled]_vars

\* the consumer resolved after handling twice, in one batch, the UPDATE
\* message of a task that was deleted before: it found no task both times
C26_Witness ==
  /\ awaiting = "resolved" /\ Len(records) = 2
  /\ records[1] = records[2] /\ IsUpdate(1)
  /\ records[1].val.taskId \in deleted
  /\ records[1].val.taskId \notin DOMAIN table
  /\ handled = <<(<<1, "not found">>), (<<2, "not found">>)>>

====
